---- MODULE Spec2Model ----
(***************************************************************************)
(* Model of bin/migrate.py: ImageMigrator.migrate rewrites the storage     *)
(* descriptor section of a clip archive read from a source bucket and      *)
(* uploads the result to a target bucket.  Archives are byte sequences     *)
(* (bytes are the integers 0..255); object storage is a function from a    *)
(* location (endpoint, bucket) and an object key to an object.             *)
(***************************************************************************)
EXTENDS Integers, Sequences, FiniteSets, TLC

\* ------------------------------------------------------------------ bounds
MaxRuns == 2        \* calls of migrate in one behaviour
MaxNameLen == 2     \* length of bucket / region / endpoint / key strings
MaxIndexLen == 2    \* length of the index section of a source archive
MaxGap == 1         \* unused bytes between the two sections

\* ------------------------------------------------------- program constants
CLIP_ARCHIVE_HEADER_SIZE == 54

\* ----------------------------------------------------------- byte helpers
Rep(c, n) == [i \in 1..n |-> c]

Max(a, b) == IF a >= b THEN a ELSE b

Min(a, b) == IF a <= b THEN a ELSE b

\* Python slice s[a:b] of a bytes object: negative indices count from the
\* end, both ends are clamped to the object, an empty range gives b"".
PyIndex(i, n) == IF i < 0 THEN Max(i + n, 0) ELSE Min(i, n)

PySlice(s, a, b) ==
    LET lo == PyIndex(a, Len(s))
        hi == PyIndex(b, Len(s))
    IN  IF lo < hi THEN SubSeq(s, lo + 1, hi) ELSE << >>

PySliceFrom(s, a) == PySlice(s, a, Len(s))

\* bytes.strip(b"\x00"): drop leading and trailing NUL bytes.
RECURSIVE StripLeft(_)
StripLeft(s) ==
    IF s = << >> THEN << >>
    ELSE IF Head(s) = 0 THEN StripLeft(Tail(s)) ELSE s

RECURSIVE StripRight(_)
StripRight(s) ==
    IF s = << >> THEN << >>
    ELSE IF s[Len(s)] = 0 THEN StripRight(SubSeq(s, 1, Len(s) - 1)) ELSE s

Strip(s) == StripRight(StripLeft(s))

\* ------------------------------------------------- struct "<9sBqqqq12s"
Pow256(i) == IF i = 0 THEN 1 ELSE IF i = 1 THEN 256
             ELSE IF i = 2 THEN 65536 ELSE 16777216

\* byte i (0 = least significant) of a non-negative integer below 2^31
ByteOf(v, i) == IF i <= 3 THEN (v \div Pow256(i)) % 256 ELSE 0

\* ">q": the same eight bytes, most significant first
PackQ_BigEndian(v) ==
    [i \in 1..8 |-> IF v >= 0 THEN ByteOf(v, 8 - i)
                    ELSE 255 - ByteOf(-(v + 1), 8 - i)]

\* "<q": 8 bytes, little-endian, two's complement
PackQ(v) ==
    [i \in 1..8 |-> IF v >= 0 THEN ByteOf(v, i - 1)
                    ELSE 255 - ByteOf(-(v + 1), i - 1)]

RECURSIVE Magnitude(_, _)
Magnitude(b, neg) ==
    IF b = << >> THEN 0
    ELSE (IF neg THEN 255 - Head(b) ELSE Head(b)) + 256 * Magnitude(Tail(b), neg)

UnpackQ(b) ==
    IF b[8] >= 128 THEN -1 - Magnitude(b, TRUE) ELSE Magnitude(b, FALSE)

\* "9s" / "12s": truncated or NUL-padded to the field width
PackS(s, w) == [i \in 1..w |-> IF i <= Len(s) THEN s[i] ELSE 0]

StructPack(h) ==
    PackS(h.start_bytes, 9) \o << h.clip_file_format_version >>
      \o PackQ(h.index_length) \o PackQ(h.index_pos)
      \o PackQ(h.storage_info_length) \o PackQ(h.storage_info_pos)
      \o PackS(h.storage_info_type, 12)

\* struct.unpack raises struct.error unless exactly 54 bytes are given
StructUnpackOk(data) == Len(data) = CLIP_ARCHIVE_HEADER_SIZE

StructUnpack(data) ==
    [ start_bytes              |-> SubSeq(data, 1, 9),
      clip_file_format_version |-> data[10],
      index_length             |-> UnpackQ(SubSeq(data, 11, 18)),
      index_pos                |-> UnpackQ(SubSeq(data, 19, 26)),
      storage_info_length      |-> UnpackQ(SubSeq(data, 27, 34)),
      storage_info_pos         |-> UnpackQ(SubSeq(data, 35, 42)),
      storage_info_type        |-> SubSeq(data, 43, 54) ]

\* ------------------------------------------------------------- pygob
\* A dumped value is a byte count followed by its fields, each field a
\* length byte followed by the field's bytes.
GobField(s) == << Len(s) >> \o s

GobMessage(payload) == << Len(payload) >> \o payload

DumpS3StorageInfo(info) ==
    GobMessage(GobField(info.Bucket) \o GobField(info.Region)
                 \o GobField(info.Key) \o GobField(info.Endpoint))

DumpStorageInfoWrapper(w) ==
    GobMessage(GobField(w.Type) \o GobField(w.Data))

\* Split a payload into its fields; << >> of fields and ok = FALSE when a
\* field runs past the end of the payload.
RECURSIVE GobFields(_)
GobFields(p) ==
    IF p = << >> THEN [ok |-> TRUE, fields |-> << >>]
    ELSE IF Head(p) > Len(p) - 1 THEN [ok |-> FALSE, fields |-> << >>]
    ELSE LET rest == GobFields(SubSeq(p, Head(p) + 2, Len(p)))
         IN  [ok |-> rest.ok,
              fields |-> IF rest.ok
                         THEN << SubSeq(p, 2, Head(p) + 1) >> \o rest.fields
                         ELSE << >>]

\* pygob.load(data) of a value with n fields: ok = FALSE stands for the
\* exception pygob raises on bytes it cannot decode into that shape.
GobLoad(data, n) ==
    IF data = << >> \/ Head(data) # Len(data) - 1
    THEN [ok |-> FALSE, fields |-> << >>]
    ELSE LET r == GobFields(Tail(data))
         IN  IF r.ok /\ Len(r.fields) = n THEN r
             ELSE [ok |-> FALSE, fields |-> << >>]

LoadStorageInfoWrapper(data) ==
    LET r == GobLoad(data, 2)
    IN  [ok |-> r.ok,
         value |-> IF r.ok THEN [Type |-> r.fields[1], Data |-> r.fields[2]]
                   ELSE [Type |-> << >>, Data |-> << >>]]

NoS3StorageInfo ==
    [Bucket |-> << >>, Region |-> << >>, Key |-> << >>, Endpoint |-> << >>]

LoadS3StorageInfo(data) ==
    LET r == GobLoad(data, 4)
    IN  [ok |-> r.ok,
         value |-> IF r.ok
                   THEN [Bucket |-> r.fields[1], Region |-> r.fields[2],
                         Key |-> r.fields[3], Endpoint |-> r.fields[4]]
                   ELSE NoS3StorageInfo]

\* ------------------------------------------------------ object storage
\* The object found under a key of a bucket: absent, or its bytes.
Absent == [exists |-> FALSE, data |-> << >>]

Object(bytes) == [exists |-> TRUE, data |-> bytes]

\* boto3 client of a BucketConfiguration: the endpoint it talks to; with
\* the Bucket= argument of a call this names the bucket that is accessed.
Location(cfg) == << cfg.endpoint, cfg.bucket >>

\* Body.read(amt): at most amt bytes of the body, all of it if amt < 0
BodyRead(body, amt) ==
    IF amt < 0 THEN body ELSE SubSeq(body, 1, Min(amt, Len(body)))

\* get_object(Range="bytes=first-last"): a range that starts inside the
\* object is cut at the object's end, one that starts at or after the end
\* is refused (InvalidRange); a range header that is not a valid range
\* (negative start, last before first) is either refused as well or ignored,
\* and then the whole object is returned: backends differ.
RangeValid(first, last) == first >= 0 /\ last >= first

RangeSatisfiable(obj, first, last) ==
    RangeValid(first, last) => first < Len(obj.data)

RangeBody(obj, first, last) ==
    IF RangeValid(first, last)
    THEN SubSeq(obj.data, first + 1, Min(last + 1, Len(obj.data)))
    ELSE obj.data

\* put_object: the object under the key is replaced as a whole
PutObject(st, loc, key, data) ==
    [st EXCEPT ![loc][key] = Object(data)]

IOErrors == {"AccessDenied", "TransientIOError"}

\* ------------------------------------------------------------- inputs
Keys == {"k1", "k2"}

BucketConfiguration(n) ==
    [bucket |-> Rep(98, n), region |-> Rep(114, n), endpoint |-> Rep(101, n)]

Configurations == {BucketConfiguration(n) : n \in 1..MaxNameLen}

Locations == {Location(c) : c \in Configurations}

S3Tag == << 115, 51 >>

\* storage_info_type values: "s3" NUL-padded, "s3" after a leading NUL,
\* "gcs", "s3x" and the empty tag
StorageInfoTypes ==
    { PackS(S3Tag, 12), PackS(<< 0 >> \o S3Tag, 12), PackS(<< 103, 99, 115 >>, 12),
      PackS(S3Tag \o << 120 >>, 12), PackS(<< >>, 12) }

StartBytes == << 137, 67, 76, 73, 80, 13, 10, 26, 10 >>

\* descriptors found in source archives
OldS3StorageInfo(n, k) ==
    [Bucket |-> Rep(111, n), Region |-> << 97 >>, Key |-> Rep(107, k),
     Endpoint |-> << 104 >>]

OldWrapperData(n, k) ==
    DumpStorageInfoWrapper([Type |-> S3Tag,
                            Data |-> DumpS3StorageInfo(OldS3StorageInfo(n, k))])

IndexBytes(n) == [i \in 1..n |-> 200 + i]

TrailerBytes == << 250, 251 >>

\* An archive whose index section precedes the descriptor section, with
\* gap unused bytes in between, lenAdj added to the recorded descriptor
\* length and the given trailing bytes.
IndexFirstArchive(tag, n, k, idx, gap, lenAdj, trailer) ==
    LET w == OldWrapperData(n, k)
        h == [ start_bytes              |-> StartBytes,
               clip_file_format_version |-> 1,
               index_length             |-> idx,
               index_pos                |-> CLIP_ARCHIVE_HEADER_SIZE,
               storage_info_length      |-> Len(w) + lenAdj,
               storage_info_pos         |-> CLIP_ARCHIVE_HEADER_SIZE + idx + gap,
               storage_info_type        |-> tag ]
    IN  StructPack(h) \o IndexBytes(idx) \o Rep(240, gap) \o w \o trailer

\* An archive whose descriptor section precedes the index section.
InfoFirstArchive(tag, n, k, idx, gap, lenAdj, trailer) ==
    LET w == OldWrapperData(n, k)
        h == [ start_bytes              |-> StartBytes,
               clip_file_format_version |-> 1,
               index_length             |-> idx,
               index_pos                |-> CLIP_ARCHIVE_HEADER_SIZE + Len(w) + gap,
               storage_info_length      |-> Len(w) + lenAdj,
               storage_info_pos         |-> CLIP_ARCHIVE_HEADER_SIZE,
               storage_info_type        |-> tag ]
    IN  StructPack(h) \o w \o Rep(240, gap) \o IndexBytes(idx) \o trailer

WellFormedArchives ==
    { IndexFirstArchive(PackS(S3Tag, 12), n, k, idx, gap, 0, t) :
        n \in {1, MaxNameLen}, k \in {1, MaxNameLen}, idx \in {1, MaxIndexLen},
        gap \in {0, MaxGap}, t \in {<< >>, TrailerBytes} }
    \cup
    { InfoFirstArchive(PackS(S3Tag, 12), n, k, idx, gap, 0, t) :
        n \in {1, MaxNameLen}, k \in {1, MaxNameLen}, idx \in {1, MaxIndexLen},
        gap \in {0, MaxGap}, t \in {<< >>, TrailerBytes} }

\* other tags, and descriptor lengths that do not match the section
OtherArchives ==
    { IndexFirstArchive(tag, 1, 1, 1, 0, 0, TrailerBytes) : tag \in StorageInfoTypes }
    \cup
    { InfoFirstArchive(tag, 2, 1, 1, 0, 0, << >>) : tag \in StorageInfoTypes }
    \cup
    { IndexFirstArchive(PackS(S3Tag, 12), 1, 1, 1, 0, adj, t) :
        adj \in {-1, 1}, t \in {<< >>, TrailerBytes} }

\* an archive whose header places the descriptor section inside the header
OverlappingArchive ==
    LET w == OldWrapperData(1, 1)
        h == [ start_bytes              |-> StartBytes,
               clip_file_format_version |-> 1,
               index_length             |-> 1,
               index_pos                |-> CLIP_ARCHIVE_HEADER_SIZE,
               storage_info_length      |-> Len(w),
               storage_info_pos         |-> CLIP_ARCHIVE_HEADER_SIZE - 4,
               storage_info_type        |-> PackS(S3Tag, 12) ]
    IN  StructPack(h) \o IndexBytes(1) \o w

\* an archive whose header records the given descriptor position and length,
\* whatever the body holds there (the wrapper sits right after the index)
MisplacedArchive(pos, length) ==
    LET h == [ start_bytes              |-> StartBytes,
               clip_file_format_version |-> 1,
               index_length             |-> 1,
               index_pos                |-> CLIP_ARCHIVE_HEADER_SIZE,
               storage_info_length      |-> length,
               storage_info_pos         |-> pos,
               storage_info_type        |-> PackS(S3Tag, 12) ]
    IN  StructPack(h) \o IndexBytes(1) \o OldWrapperData(1, 1)

\* an archive whose header says "s3" while the wrapper in its descriptor
\* section carries the type "gcs"
ForeignWrapperArchive ==
    LET w == DumpStorageInfoWrapper(
                 [Type |-> << 103, 99, 115 >>,
                  Data |-> DumpS3StorageInfo(OldS3StorageInfo(1, 1))])
        h == [ start_bytes              |-> StartBytes,
               clip_file_format_version |-> 1,
               index_length             |-> 1,
               index_pos                |-> CLIP_ARCHIVE_HEADER_SIZE,
               storage_info_length      |-> Len(w),
               storage_info_pos         |-> CLIP_ARCHIVE_HEADER_SIZE + 1,
               storage_info_type        |-> PackS(S3Tag, 12) ]
    IN  StructPack(h) \o IndexBytes(1) \o w

\* an object cut short after n bytes
Truncated(n) ==
    SubSeq(IndexFirstArchive(PackS(S3Tag, 12), 1, 1, 1, 0, 0, << >>), 1, n)

\* objects that may be stored under a key of the source bucket
SourceObjects ==
    { Object(a) : a \in WellFormedArchives \cup OtherArchives }
    \cup { Object(OverlappingArchive), Object(Truncated(20)),
           Object(Truncated(CLIP_ARCHIVE_HEADER_SIZE)), Absent }
    \cup { Object(MisplacedArchive(-1, Len(OldWrapperData(1, 1)))),
           Object(MisplacedArchive(CLIP_ARCHIVE_HEADER_SIZE + 1, -1)),
           Object(ForeignWrapperArchive) }

\* objects that may be stored under a key of the target bucket beforehand
TargetObjects == { Absent, Object(<< 1, 2, 3 >>) }

\* --------------------------------------------------------------- state
VARIABLES
    store,             \* object storage: location -> key -> object
    source_bucket,     \* self.source_bucket
    target_bucket,     \* self.target_bucket
    pc,                \* position of the current call of migrate
    image_key,         \* argument of the current call
    header,            \* local header (a mutable ClipArchiveHeader)
    s3_info,           \* local s3_info
    new_wrapper_data,  \* local new_wrapper_data
    full_data,         \* local full_data
    updated_data,      \* local updated_data
    error,             \* exception that ended the call, "" if none
    runs,              \* calls of migrate started so far
    trace,             \* steps of the current call that returned normally
    calls,             \* storage requests issued by the current call
    start,             \* the storage when the current call began
    uploaded,          \* per key, the target object after each acknowledged put
    parked,            \* the frame of a second call of migrate that is not running
    codec              \* a header on its way through struct.pack and struct.unpack

vars == << store, source_bucket, target_bucket, pc, image_key, header, s3_info,
           new_wrapper_data, full_data, updated_data, error, runs, trace,
           calls, start, uploaded, parked, codec >>

locals == << header, s3_info, new_wrapper_data, full_data, updated_data >>

config == << source_bucket, target_bucket >>

aside == << parked, codec >>

NoHeader ==
    [ start_bytes |-> << >>, clip_file_format_version |-> 0, index_length |-> 0,
      index_pos |-> 0, storage_info_length |-> 0, storage_info_pos |-> 0,
      storage_info_type |-> << >> ]

SourceLoc == Location(source_bucket)

TargetLoc == Location(target_bucket)

SourceObject == store[SourceLoc][image_key]

NoCodec == [stage |-> "none", h |-> NoHeader, bytes |-> << >>, out |-> NoHeader]

\* the storages in which the source bucket holds one of the given objects
\* under "k1" and a well-formed archive under "k2"
InitialStores(sources) ==
    { [l \in Locations |->
         IF l = Location(source_bucket)
         THEN [k \in Keys |->
                 IF k = "k1" THEN a
                 ELSE Object(InfoFirstArchive(PackS(S3Tag, 12),
                                              MaxNameLen, MaxNameLen,
                                              1, 0, 0, << >>))]
         ELSE IF l = Location(target_bucket)
         THEN [k \in Keys |-> t]
         ELSE [k \in Keys |-> Absent]] : a \in sources, t \in TargetObjects }

\* no call of migrate has begun
Fresh ==
    /\ pc = "Idle"
    /\ image_key = "k1"
    /\ header = NoHeader
    /\ s3_info = NoS3StorageInfo
    /\ new_wrapper_data = << >>
    /\ full_data = << >>
    /\ updated_data = << >>
    /\ error = ""
    /\ runs = 0
    /\ trace = << >>
    /\ calls = << >>
    /\ start = store
    /\ uploaded = [k \in Keys |-> << >>]
    /\ parked = [ pc |-> "Idle", image_key |-> "k2", header |-> NoHeader,
                  s3_info |-> NoS3StorageInfo, new_wrapper_data |-> << >>,
                  full_data |-> << >>, updated_data |-> << >>, error |-> "",
                  trace |-> << >>, calls |-> << >>, start |-> store ]

\* ImageMigrator(source_bucket, target_bucket) over a storage in which the
\* source bucket holds an object (or none) under each key.
Init ==
    /\ source_bucket \in Configurations
    /\ target_bucket \in Configurations
    /\ store \in InitialStores(SourceObjects)
    /\ Fresh
    /\ codec = NoCodec

\* the call raises: nothing after the raising statement is executed
Raise(e) ==
    /\ pc' = "Failed"
    /\ error' = e

Return(step, next) ==
    /\ pc' = next
    /\ trace' = Append(trace, step)
    /\ UNCHANGED error

Request(client, op) == calls' = Append(calls, << client, op >>)

\* ---------------------------------------------------- migrate: get_header
\* migrate(key) is entered when no call is in progress; its first statement
\* is get_header(key): get_object on the source bucket, read(54), unpack.
Enter(key) ==
    /\ pc \in {"Idle", "Done", "Failed"}
    /\ runs < MaxRuns
    /\ runs' = runs + 1
    /\ image_key' = key
    /\ start' = store
    /\ calls' = << << "source", "get_object" >> >>
    /\ s3_info' = NoS3StorageInfo
    /\ new_wrapper_data' = << >>
    /\ full_data' = << >>
    /\ updated_data' = << >>
    /\ UNCHANGED << store, config, aside, uploaded >>

GetHeader(key) ==
    /\ Enter(key)
    /\ store[SourceLoc][key].exists
    /\ LET data == BodyRead(store[SourceLoc][key].data, CLIP_ARCHIVE_HEADER_SIZE)
       IN  /\ StructUnpackOk(data)
           /\ header' = StructUnpack(data)
    /\ pc' = "HeaderFetched"
    /\ trace' = << "get_header" >>
    /\ error' = ""

\* struct.error is caught and printed; the next statement then reads the
\* unassigned local unpacked_data
GetHeaderShort(key) ==
    /\ Enter(key)
    /\ store[SourceLoc][key].exists
    /\ ~StructUnpackOk(BodyRead(store[SourceLoc][key].data, CLIP_ARCHIVE_HEADER_SIZE))
    /\ header' = NoHeader
    /\ trace' = << >>
    /\ Raise("UnboundLocalError")

GetHeaderNotFound(key) ==
    /\ Enter(key)
    /\ ~store[SourceLoc][key].exists
    /\ header' = NoHeader
    /\ trace' = << >>
    /\ Raise("NotFound")

GetHeaderIOError(key, e) ==
    /\ Enter(key)
    /\ header' = NoHeader
    /\ trace' = << >>
    /\ Raise(e)

\* ------------------------------------------- migrate: storage_info_type
\* mutant: the tag is only compared on its first two bytes
IsS3Type_Prefix(h) == SubSeq(h.storage_info_type, 1, 2) = S3Tag

IsS3Type(h) == Strip(h.storage_info_type) = S3Tag

CheckType ==
    /\ pc = "HeaderFetched"
    /\ IsS3Type(header)
    /\ Return("check_type", "TypeChecked")
    /\ UNCHANGED << store, config, aside, image_key, locals, runs, calls, start,
                    uploaded >>

CheckTypeUnknown ==
    /\ pc = "HeaderFetched"
    /\ ~IsS3Type(header)
    /\ Raise("ValueError")
    /\ UNCHANGED << store, config, aside, image_key, locals, runs, trace, calls, start,
                    uploaded >>

\* ------------------------------------------ migrate: get_s3_storage_info
\* get_object(Range=f"bytes={pos}-{pos + length - 1}"), read(length), then
\* pygob.load of the wrapper and of the wrapper's Data.
DescriptorBytes(obj, pos, length) ==
    BodyRead(RangeBody(obj, pos, pos + length - 1), length)

DecodeS3StorageInfo(data) ==
    LET w == LoadStorageInfoWrapper(data)
    IN  IF w.ok THEN LoadS3StorageInfo(w.value.Data)
        ELSE [ok |-> FALSE, value |-> NoS3StorageInfo]

GetS3StorageInfo ==
    /\ pc = "TypeChecked"
    /\ Request("source", "get_object")
    /\ SourceObject.exists
    /\ RangeSatisfiable(SourceObject, header.storage_info_pos,
                        header.storage_info_pos + header.storage_info_length - 1)
    /\ LET r == DecodeS3StorageInfo(DescriptorBytes(SourceObject,
                    header.storage_info_pos, header.storage_info_length))
       IN  /\ r.ok
           /\ s3_info' = r.value
    /\ Return("get_s3_storage_info", "DescriptorFetched")
    /\ UNCHANGED << store, config, aside, image_key, header, new_wrapper_data, full_data,
                    updated_data, runs, start, uploaded >>

GetS3StorageInfoDecodeError ==
    /\ pc = "TypeChecked"
    /\ Request("source", "get_object")
    /\ SourceObject.exists
    /\ RangeSatisfiable(SourceObject, header.storage_info_pos,
                        header.storage_info_pos + header.storage_info_length - 1)
    /\ ~DecodeS3StorageInfo(DescriptorBytes(SourceObject,
            header.storage_info_pos, header.storage_info_length)).ok
    /\ Raise("DecodeError")
    /\ UNCHANGED << store, config, aside, image_key, locals, runs, trace, start,
                    uploaded >>

GetS3StorageInfoInvalidRange ==
    /\ pc = "TypeChecked"
    /\ Request("source", "get_object")
    /\ SourceObject.exists
    /\ \/ ~RangeSatisfiable(SourceObject, header.storage_info_pos,
                            header.storage_info_pos + header.storage_info_length - 1)
       \/ ~RangeValid(header.storage_info_pos,
                      header.storage_info_pos + header.storage_info_length - 1)
    /\ Raise("InvalidRange")
    /\ UNCHANGED << store, config, aside, image_key, locals, runs, trace, start,
                    uploaded >>

GetS3StorageInfoIOError(e) ==
    /\ pc = "TypeChecked"
    /\ Request("source", "get_object")
    /\ Raise(e)
    /\ UNCHANGED << store, config, aside, image_key, locals, runs, trace, start,
                    uploaded >>

\* ------------------------------------------------ migrate: new descriptor
\* mutant: the key is taken from the wrong field of the old descriptor
NewS3StorageInfo_WrongKey(src, tgt, info) ==
    [ Bucket   |-> src.bucket,
      Region   |-> src.region,
      Key      |-> info.Bucket,
      Endpoint |-> src.endpoint ]

\* S3StorageInfo(Bucket=..., Region=..., Key=bytes(s3_info.Key), Endpoint=...)
NewS3StorageInfo(src, tgt, info) ==
    [ Bucket   |-> src.bucket,
      Region   |-> src.region,
      Key      |-> info.Key,
      Endpoint |-> src.endpoint ]

NewWrapperData(info) ==
    DumpStorageInfoWrapper([Type |-> S3Tag, Data |-> DumpS3StorageInfo(info)])

\* lines 111-132: build and dump the new descriptor and its wrapper, then
\* header.storage_info_length = len(new_wrapper_data)
RebuildDescriptor ==
    /\ pc = "DescriptorFetched"
    /\ LET w == NewWrapperData(NewS3StorageInfo(source_bucket, target_bucket, s3_info))
       IN  /\ new_wrapper_data' = w
           /\ header' = [header EXCEPT !.storage_info_length = Len(w)]
    /\ Return("rebuild", "DescriptorRebuilt")
    /\ UNCHANGED << store, config, aside, image_key, s3_info, full_data, updated_data,
                    runs, calls, start, uploaded >>

\* ---------------------------------------- migrate: download_full_archive
DownloadFullArchive ==
    /\ pc = "DescriptorRebuilt"
    /\ Request("source", "get_object")
    /\ SourceObject.exists
    /\ full_data' = BodyRead(SourceObject.data, -1)
    /\ Return("download_full_archive", "Downloaded")
    /\ UNCHANGED << store, config, aside, image_key, header, s3_info, new_wrapper_data,
                    updated_data, runs, start, uploaded >>

\* mutant: the exception is caught and the call goes on without the archive
DownloadFullArchiveIOError_Swallowed(e) ==
    /\ pc = "DescriptorRebuilt"
    /\ Request("source", "get_object")
    /\ pc' = "Downloaded"
    /\ full_data' = << >>
    /\ UNCHANGED << store, config, aside, image_key, header, s3_info, new_wrapper_data,
                    updated_data, error, runs, trace, start, uploaded >>

DownloadFullArchiveIOError(e) ==
    /\ pc = "DescriptorRebuilt"
    /\ Request("source", "get_object")
    /\ Raise(e)
    /\ UNCHANGED << store, config, aside, image_key, locals, runs, trace, start,
                    uploaded >>

\* ------------------------------------------------ migrate: update_binary
\* mutant: the header of the downloaded archive is kept as it is
UpdateBinaryData_StaleHeader(data, h, new_s3_info_data) ==
    SubSeq(data, 1, CLIP_ARCHIVE_HEADER_SIZE)
      \o PySlice(data, CLIP_ARCHIVE_HEADER_SIZE, h.storage_info_pos)
      \o new_s3_info_data
      \o PySliceFrom(data, h.storage_info_pos + h.storage_info_length)

\* mutant: the bytes between the header and the section are left out
UpdateBinaryData_NoPrefix(data, h, new_s3_info_data) ==
    StructPack(h)
      \o new_s3_info_data
      \o PySliceFrom(data, h.storage_info_pos + h.storage_info_length)

UpdateBinaryData(data, h, new_s3_info_data) ==
    StructPack(h)
      \o PySlice(data, CLIP_ARCHIVE_HEADER_SIZE, h.storage_info_pos)
      \o new_s3_info_data
      \o PySliceFrom(data, h.storage_info_pos + h.storage_info_length)

UpdateBinary ==
    /\ pc = "Downloaded"
    /\ updated_data' = UpdateBinaryData(full_data, header, new_wrapper_data)
    /\ Return("update_binary", "Spliced")
    /\ UNCHANGED << store, config, aside, image_key, header, s3_info, new_wrapper_data,
                    full_data, runs, calls, start, uploaded >>

\* --------------------------------------- migrate: upload_to_target_bucket
\* mutant: the data is appended to the object found at the target
UploadToTargetBucket_Append(st, src, tgt, key, data) ==
    PutObject(st, Location(tgt), key, st[Location(tgt)][key].data \o data)

\* mutant: the put goes through the source client
UploadToTargetBucket_ToSource(st, src, tgt, key, data) ==
    PutObject(st, Location(src), key, data)

UploadToTargetBucket(st, src, tgt, key, data) ==
    PutObject(st, Location(tgt), key, data)

Upload ==
    /\ pc = "Spliced"
    /\ Request("target", "put_object")
    /\ store' = UploadToTargetBucket(store, source_bucket, target_bucket,
                                     image_key, updated_data)
    /\ uploaded' = [uploaded EXCEPT
                       ![image_key] = Append(@, store'[TargetLoc][image_key].data)]
    /\ Return("upload_to_target_bucket", "Done")
    /\ UNCHANGED << config, aside, image_key, locals, runs, start >>

\* mutant: the error reported by put_object is ignored
UploadIOError_TreatedAsSuccess(e) ==
    /\ pc = "Spliced"
    /\ Request("target", "put_object")
    /\ Return("upload_to_target_bucket", "Done")
    /\ UNCHANGED << store, config, aside, image_key, locals, runs, start, uploaded >>

UploadIOError(e) ==
    /\ pc = "Spliced"
    /\ Request("target", "put_object")
    /\ Raise(e)
    /\ UNCHANGED << store, config, aside, image_key, locals, runs, trace, start,
                    uploaded >>

\* ------------------------------------------------------------ behaviours
Next ==
    \/ \E key \in Keys : GetHeader(key)
    \/ \E key \in Keys : GetHeaderShort(key)
    \/ \E key \in Keys : GetHeaderNotFound(key)
    \/ \E key \in Keys, e \in IOErrors : GetHeaderIOError(key, e)
    \/ CheckType
    \/ CheckTypeUnknown
    \/ GetS3StorageInfo
    \/ GetS3StorageInfoDecodeError
    \/ GetS3StorageInfoInvalidRange
    \/ \E e \in IOErrors : GetS3StorageInfoIOError(e)
    \/ RebuildDescriptor
    \/ DownloadFullArchive
    \/ \E e \in IOErrors : DownloadFullArchiveIOError(e)
    \/ UpdateBinary
    \/ Upload
    \/ \E e \in IOErrors : UploadIOError(e)

Spec == Init /\ [][Next]_vars

\* ------------------------------------------------ what the claims speak of
\* the source archive as it was when the current call began
SourceArchive == start[SourceLoc][image_key].data

SourceHeader == StructUnpack(SubSeq(SourceArchive, 1, CLIP_ARCHIVE_HEADER_SIZE))

\* the target object as it was when the current call began
TargetBefore == start[TargetLoc][image_key]

\* the archive the current call has uploaded (the call is Done)
UploadedArchive == store[TargetLoc][image_key].data

UploadedHeader == StructUnpack(SubSeq(UploadedArchive, 1, CLIP_ARCHIVE_HEADER_SIZE))

\* the bytes of an archive at [pos, pos + length)
Section(archive, pos, length) ==
    SubSeq(archive, pos + 1, Min(pos + length, Len(archive)))

InBounds(archive, pos, length) ==
    /\ CLIP_ARCHIVE_HEADER_SIZE <= pos
    /\ length >= 0
    /\ pos + length <= Len(archive)

Disjoint(pos1, len1, pos2, len2) == pos1 + len1 <= pos2 \/ pos2 + len2 <= pos1

\* the precondition of C1 and C5
DescriptorInBounds ==
    /\ CLIP_ARCHIVE_HEADER_SIZE <= SourceHeader.storage_info_pos
    /\ SourceHeader.storage_info_pos + SourceHeader.storage_info_length
         <= Len(SourceArchive)

\* both sections inside the archive, after the header, not overlapping
ValidSource ==
    /\ InBounds(SourceArchive, SourceHeader.index_pos, SourceHeader.index_length)
    /\ InBounds(SourceArchive, SourceHeader.storage_info_pos,
                SourceHeader.storage_info_length)
    /\ Disjoint(SourceHeader.index_pos, SourceHeader.index_length,
                SourceHeader.storage_info_pos, SourceHeader.storage_info_length)

Delta == Len(new_wrapper_data) - SourceHeader.storage_info_length

OldEnd == SourceHeader.storage_info_pos + SourceHeader.storage_info_length

\* the descriptor a reader finds by following the uploaded archive's header
UploadedDescriptor ==
    DecodeS3StorageInfo(Section(UploadedArchive, UploadedHeader.storage_info_pos,
                                UploadedHeader.storage_info_length))

\* the descriptor a reader finds by following the source archive's header
SourceDescriptor ==
    DecodeS3StorageInfo(Section(SourceArchive, SourceHeader.storage_info_pos,
                                SourceHeader.storage_info_length))

\* ---------------------------------------------------------------- claims
\* C1: when the old descriptor section lies inside the source archive after
\* the header, the uploaded archive is the header, the source bytes up to
\* the section, the new section, and the source bytes from the OLD section's
\* end on; its length is the source length plus delta.
C1_ExcisesOldSection ==
    (pc = "Done" /\ DescriptorInBounds) =>
        /\ UploadedArchive =
              SubSeq(UploadedArchive, 1, CLIP_ARCHIVE_HEADER_SIZE)
                \o SubSeq(SourceArchive, CLIP_ARCHIVE_HEADER_SIZE + 1,
                          SourceHeader.storage_info_pos)
                \o new_wrapper_data
                \o SubSeq(SourceArchive, OldEnd + 1, Len(SourceArchive))
        /\ Len(UploadedArchive) = Len(SourceArchive) + Delta

\* C2: after a successful migrate the uploaded descriptor names the target
\* backend's bucket, region and endpoint.
C2_TargetCoordinates ==
    pc = "Done" =>
        /\ UploadedDescriptor.ok
        /\ UploadedDescriptor.value.Bucket = target_bucket.bucket
        /\ UploadedDescriptor.value.Region = target_bucket.region
        /\ UploadedDescriptor.value.Endpoint = target_bucket.endpoint

\* C3: for a valid source archive the index section found through the
\* uploaded header is the source's index section, and an index section that
\* lies after the old descriptor section has moved by delta.
C3_IndexFollowsSplice ==
    (pc = "Done" /\ ValidSource) =>
        /\ UploadedHeader.index_length = SourceHeader.index_length
        /\ UploadedHeader.index_pos + UploadedHeader.index_length
             <= Len(UploadedArchive)
        /\ Section(UploadedArchive, UploadedHeader.index_pos,
                   UploadedHeader.index_length)
             = Section(SourceArchive, SourceHeader.index_pos,
                       SourceHeader.index_length)
        /\ SourceHeader.index_pos >= OldEnd =>
             UploadedHeader.index_pos = SourceHeader.index_pos + Delta

\* C4: after a successful migrate the key of the uploaded descriptor is the
\* key of the descriptor decoded from the source archive.
C4_KeyPreserved ==
    pc = "Done" =>
        /\ SourceDescriptor.ok
        /\ LoadStorageInfoWrapper(new_wrapper_data).ok
        /\ DecodeS3StorageInfo(new_wrapper_data).value.Key = SourceDescriptor.value.Key
        /\ UploadedDescriptor.ok
        /\ UploadedDescriptor.value.Key = SourceDescriptor.value.Key

C4_Witness ==
    /\ pc = "Done"
    /\ image_key = "k1"
    /\ source_bucket # target_bucket
    /\ Delta # 0
    /\ SourceDescriptor.value.Key = Rep(107, MaxNameLen)
    /\ UploadedDescriptor.value.Key = Rep(107, MaxNameLen)

\* C5: when the old descriptor section lies inside the source archive after
\* the header, the uploaded header records the length of the new wrapper and
\* the bytes it points at are the new wrapper, which decodes to the descriptor
\* that was encoded.
C5_NewSectionInPlace ==
    (pc = "Done" /\ DescriptorInBounds) =>
        /\ UploadedHeader.storage_info_length = Len(new_wrapper_data)
        /\ UploadedHeader.storage_info_pos + UploadedHeader.storage_info_length
             <= Len(UploadedArchive)
        /\ Section(UploadedArchive, UploadedHeader.storage_info_pos,
                   UploadedHeader.storage_info_length) = new_wrapper_data
        /\ UploadedDescriptor.ok
        /\ DumpS3StorageInfo(UploadedDescriptor.value)
             = LoadStorageInfoWrapper(new_wrapper_data).value.Data

C5_Witness ==
    /\ pc = "Done"
    /\ DescriptorInBounds
    /\ Delta > 0
    /\ SourceHeader.index_pos >= OldEnd
    /\ UploadedHeader.storage_info_length = Len(new_wrapper_data)

\* C6: for a valid source archive the header of the spliced archive keeps
\* both sections inside the spliced bytes and apart from each other.
C6_LayoutInvariant ==
    (pc \in {"Spliced", "Done"} /\ ValidSource) =>
        LET h == StructUnpack(SubSeq(updated_data, 1, CLIP_ARCHIVE_HEADER_SIZE))
        IN  /\ h.storage_info_pos + h.storage_info_length <= Len(updated_data)
            /\ h.index_pos + h.index_length <= Len(updated_data)
            /\ Disjoint(h.index_pos, h.index_length,
                        h.storage_info_pos, h.storage_info_length)

\* the text of a type tag: the bytes from its first to its last non-NUL byte
TagText(t) ==
    LET nz == {i \in 1..Len(t) : t[i] # 0}
    IN  IF nz = {} THEN << >>
        ELSE SubSeq(t, CHOOSE i \in nz : \A j \in nz : i <= j,
                       CHOOSE i \in nz : \A j \in nz : i >= j)

Puts == Cardinality({i \in 1..Len(calls) : calls[i][2] = "put_object"})

\* C7: once the header is read and its type tag is not "s3", the call can
\* only fail with the unknown-type error; it issues no put and the target
\* bucket stays as it was.
C7_UnknownTypeRejected ==
    (trace # << >> /\ TagText(header.storage_info_type) # << 115, 51 >>) =>
        /\ pc \in {"HeaderFetched", "Failed"}
        /\ pc = "Failed" => error = "ValueError"
        /\ Puts = 0
        /\ store[TargetLoc] = start[TargetLoc]

C7_Witness ==
    /\ pc = "Failed"
    /\ error = "ValueError"
    /\ trace = << "get_header" >>
    /\ TagText(header.storage_info_type) = << 115, 51, 120 >>
    /\ TargetBefore.exists
    /\ store[TargetLoc][image_key] = TargetBefore

StepsBeforePut ==
    << "get_header", "check_type", "get_s3_storage_info", "rebuild",
       "download_full_archive", "update_binary" >>

\* C8: a call issues at most one put, and only after the six earlier steps
\* have returned normally in order; as long as no put was issued, whether the
\* call is still running or has failed, the target bucket is as it was when
\* the call began.
C8_PutIsLast ==
    /\ Puts <= 1
    /\ Puts = 1 =>
         /\ Len(trace) >= Len(StepsBeforePut)
         /\ SubSeq(trace, 1, Len(StepsBeforePut)) = StepsBeforePut
         /\ calls[Len(calls)] = << "target", "put_object" >>
    /\ Puts = 0 => store[TargetLoc] = start[TargetLoc]
    /\ pc = "Done" => Puts = 1

C8_Witness ==
    /\ pc = "Failed"
    /\ error = "TransientIOError"
    /\ trace = SubSeq(StepsBeforePut, 1, 4)
    /\ Puts = 0
    /\ TargetBefore.exists
    /\ store[TargetLoc][image_key] = TargetBefore

C10_SourceReadOnly ==
    /\ \A i \in 1..Len(calls) : calls[i] # << "source", "put_object" >>
    /\ store[SourceLoc][image_key] = start[SourceLoc][image_key]

\* C10 amended: no call writes through the source client, and when the two
\* configurations name different buckets the source bucket is never changed.
C10_SourceReadOnlyWhenDistinct ==
    /\ \A i \in 1..Len(calls) :
         calls[i][1] = "source" => calls[i][2] = "get_object"
    /\ SourceLoc # TargetLoc => store[SourceLoc] = start[SourceLoc]

C10_Witness ==
    /\ pc = "Done"
    /\ SourceLoc # TargetLoc
    /\ Len(uploaded[image_key]) = 2
    /\ store[SourceLoc][image_key].data = SourceArchive

\* C11: a call is Done only when its single put of the spliced bytes under
\* the same key has been acknowledged; a put that reports an error ends the
\* call as Failed with that error and is not issued again.
C11_DoneOnlyAfterAck ==
    /\ pc = "Done" =>
         /\ Puts = 1
         /\ error = ""
         /\ trace = Append(StepsBeforePut, "upload_to_target_bucket")
         /\ store[TargetLoc][image_key] = Object(updated_data)
    /\ (pc = "Failed" /\ Puts = 1) =>
         /\ error \in IOErrors
         /\ trace = StepsBeforePut
    /\ Puts <= 1

C11_Witness ==
    /\ pc = "Failed"
    /\ Puts = 1
    /\ error = "TransientIOError"
    /\ trace = StepsBeforePut
    /\ store[TargetLoc][image_key] # Object(updated_data)

\* C13: for a valid source archive the uploaded header keeps the source's
\* magic, format version, descriptor position and type tag, and every byte
\* between the header and the descriptor section is the source's byte at
\* the same offset.
C13_PrefixUntouched ==
    (pc = "Done" /\ ValidSource) =>
        /\ Len(UploadedArchive) >= SourceHeader.storage_info_pos
        /\ UploadedHeader.start_bytes = SourceHeader.start_bytes
        /\ UploadedHeader.clip_file_format_version
             = SourceHeader.clip_file_format_version
        /\ UploadedHeader.storage_info_pos = SourceHeader.storage_info_pos
        /\ UploadedHeader.storage_info_type = SourceHeader.storage_info_type
        /\ SubSeq(UploadedArchive, 1, 10) = SubSeq(SourceArchive, 1, 10)
        /\ SubSeq(UploadedArchive, 35, CLIP_ARCHIVE_HEADER_SIZE)
             = SubSeq(SourceArchive, 35, CLIP_ARCHIVE_HEADER_SIZE)
        /\ \A i \in (CLIP_ARCHIVE_HEADER_SIZE + 1)..SourceHeader.storage_info_pos :
             UploadedArchive[i] = SourceArchive[i]

C13_Witness ==
    /\ pc = "Done"
    /\ ValidSource
    /\ SourceHeader.storage_info_pos > CLIP_ARCHIVE_HEADER_SIZE + 1
    /\ Delta < 0
    /\ UploadedArchive[CLIP_ARCHIVE_HEADER_SIZE + 1] = 201

\* C15: when fewer than 54 bytes can be read, the call fails with the
\* malformed-header error of the decode step, builds no header and issues no
\* further request.
C15_ShortHeaderIsMalformed ==
    (/\ pc = "Failed"
     /\ trace = << >>
     /\ start[SourceLoc][image_key].exists
     /\ Len(SourceArchive) < CLIP_ARCHIVE_HEADER_SIZE
     /\ error \notin IOErrors) =>
        /\ error = "struct.error"
        /\ header = NoHeader
        /\ calls = << << "source", "get_object" >> >>

\* the old descriptor range of the source header lies outside the bytes
OutOfBounds(archive) ==
    \/ SourceHeader.storage_info_pos < 0
    \/ SourceHeader.storage_info_length < 0
    \/ SourceHeader.storage_info_pos > Len(archive)
    \/ SourceHeader.storage_info_pos + SourceHeader.storage_info_length
         > Len(archive)

\* C14: once the full archive is downloaded and the header's old descriptor
\* range lies outside it, the splice produces no archive: the call fails with
\* a splice error and nothing is uploaded.
C14_OutOfBoundsRejected ==
    (/\ Len(trace) >= 5
     /\ trace[5] = "download_full_archive"
     /\ OutOfBounds(full_data)) =>
        /\ pc \in {"Downloaded", "Failed"}
        /\ pc = "Failed" => error = "SpliceError"
        /\ updated_data = << >>
        /\ Puts = 0

\* the wrapper found in the descriptor section of the source archive
SourceWrapper ==
    LoadStorageInfoWrapper(
        DescriptorBytes(start[SourceLoc][image_key], SourceHeader.storage_info_pos,
                        SourceHeader.storage_info_length))

\* C16: when the header's type is "s3" but the wrapper in the descriptor
\* section carries another type, the call gets no further than the descriptor
\* read: it fails with the unknown-type error and issues no put.
C16_WrapperTagChecked ==
    (/\ Len(trace) >= 2
     /\ trace[2] = "check_type"
     /\ SourceWrapper.ok
     /\ SourceWrapper.value.Type # << 115, 51 >>) =>
        /\ pc \in {"TypeChecked", "Failed"}
        /\ (pc = "Failed" /\ error \notin IOErrors) => error = "ValueError"
        /\ s3_info = NoS3StorageInfo
        /\ Puts = 0

\* ----------------------------------------------------- the header codec
\* struct.pack / struct.unpack with "<9sBqqqq12s", applied to headers of
\* the declared field widths: 9-byte magic, one-byte version, four signed
\* integers (the ends of the 32-bit range stand for the extreme values),
\* 12-byte NUL-padded type tag.
QValues == { -2147483647 - 1, -256, -1, 0, 255, 256, 2147483647 }

ValidHeaders ==
    [ start_bytes              : { StartBytes, Rep(0, 9) },
      clip_file_format_version : { 0, 1, 255 },
      index_length             : QValues,
      index_pos                : { -2147483647 - 1, -1, 54, 65536 },
      storage_info_length      : { -1, 0, 2147483647 },
      storage_info_pos         : { -256, 54, 16777216 },
      storage_info_type        : { PackS(S3Tag, 12), Rep(255, 12) } ]

CodecInit ==
    /\ source_bucket = BucketConfiguration(1)
    /\ target_bucket = BucketConfiguration(1)
    /\ store = [l \in Locations |-> [k \in Keys |-> Absent]]
    /\ Fresh
    /\ codec \in { [stage |-> "input", h |-> h, bytes |-> << >>, out |-> NoHeader] :
                     h \in ValidHeaders }

\* update_binary: updated_header = struct.pack("<9sBqqqq12s", ...)
Encode ==
    /\ codec.stage = "input"
    /\ codec' = [codec EXCEPT !.stage = "encoded", !.bytes = StructPack(codec.h)]
    /\ UNCHANGED << store, config, pc, image_key, locals, error, runs, trace,
                    calls, start, uploaded, parked >>

\* get_header: struct.unpack("<9sBqqqq12s", data)
Decode ==
    /\ codec.stage = "encoded"
    /\ StructUnpackOk(codec.bytes)
    /\ codec' = [codec EXCEPT !.stage = "decoded", !.out = StructUnpack(codec.bytes)]
    /\ UNCHANGED << store, config, pc, image_key, locals, error, runs, trace,
                    calls, start, uploaded, parked >>

NextCodec == Encode \/ Decode

SpecCodec == CodecInit /\ [][NextCodec]_vars

\* the eight bytes at offset off hold v least significant byte first, in
\* two's complement
LittleEndianAt(bytes, off, v) ==
    /\ bytes[off + 1] = v % 256
    /\ bytes[off + 2] = (v \div 256) % 256
    /\ bytes[off + 8] = IF v < 0 THEN 255 ELSE 0

\* C12: encoding a valid header yields exactly 54 bytes holding, in this
\* order, the magic, the version, index_length, index_pos,
\* storage_info_length, storage_info_pos (each little-endian) and the type
\* tag; decoding those bytes returns a header equal to the original in
\* every field, negative and extreme integers included.
C12_HeaderRoundTrip ==
    /\ codec.stage \in {"encoded", "decoded"} =>
         /\ Len(codec.bytes) = 54
         /\ SubSeq(codec.bytes, 1, 9) = codec.h.start_bytes
         /\ codec.bytes[10] = codec.h.clip_file_format_version
         /\ LittleEndianAt(codec.bytes, 10, codec.h.index_length)
         /\ LittleEndianAt(codec.bytes, 18, codec.h.index_pos)
         /\ LittleEndianAt(codec.bytes, 26, codec.h.storage_info_length)
         /\ LittleEndianAt(codec.bytes, 34, codec.h.storage_info_pos)
         /\ SubSeq(codec.bytes, 43, 54) = codec.h.storage_info_type
    /\ codec.stage = "decoded" => codec.out = codec.h

C12_Witness ==
    /\ codec.stage = "decoded"
    /\ codec.h.index_length = -2147483647 - 1
    /\ codec.h.index_pos = -1
    /\ codec.h.storage_info_length = 2147483647
    /\ codec.h.storage_info_pos = -256
    /\ codec.h.clip_file_format_version = 255
    /\ codec.out = codec.h

\* ------------------------------------------- a concurrent source writer
\* migrate reads the source object three times (get_header,
\* get_s3_storage_info, download_full_archive), each with its own
\* get_object and none conditional on a version or ETag, so another client
\* of the bucket may replace the object between two of the reads.
WriterObjects ==
    { Object(InfoFirstArchive(PackS(S3Tag, 12), 1, MaxNameLen, 1, 0, 0, << >>)),
      Object(IndexFirstArchive(PackS(S3Tag, 12), MaxNameLen, 1, MaxIndexLen,
                               0, 0, << >>)) }

\* the other writer replaces the object once while a call is between its
\* first and its last read
ConcurrentWrite(obj) ==
    /\ pc \in {"HeaderFetched", "TypeChecked", "DescriptorFetched", "DescriptorRebuilt"}
    /\ store[SourceLoc][image_key] = start[SourceLoc][image_key]
    /\ obj # store[SourceLoc][image_key]
    /\ store' = [store EXCEPT ![SourceLoc][image_key] = obj]
    /\ UNCHANGED << config, aside, pc, image_key, locals, error, runs, trace,
                    calls, start, uploaded >>

NextWriter ==
    \/ Next
    \/ \E obj \in WriterObjects : ConcurrentWrite(obj)

SpecWriter == Init /\ [][NextWriter]_vars

\* the header encoded in the first 54 bytes of the downloaded archive
DownloadedHeader == StructUnpack(SubSeq(full_data, 1, CLIP_ARCHIVE_HEADER_SIZE))

\* the storage info found in the descriptor section of the downloaded archive
DownloadedS3StorageInfo ==
    DecodeS3StorageInfo(Section(full_data, DownloadedHeader.storage_info_pos,
                                DownloadedHeader.storage_info_length))

\* C17: whenever an upload has happened, the header used by the splice is,
\* apart from storage_info_length, the header encoded in the first 54 bytes
\* of the archive bytes that were spliced, and the preserved key is the key
\* in the descriptor section of those same bytes, also when another writer
\* replaces the source object between the reads.
C17_SnapshotConsistent ==
    pc = "Done" =>
        /\ Len(full_data) >= CLIP_ARCHIVE_HEADER_SIZE
        /\ [header EXCEPT !.storage_info_length =
                DownloadedHeader.storage_info_length] = DownloadedHeader
        /\ DownloadedS3StorageInfo.ok
        /\ DownloadedS3StorageInfo.value.Key = s3_info.Key

\* ------------------------------------ two calls of migrate on one instance
\* migrate keeps the header, the descriptor and the archive in locals of
\* the call; the instance holds the two configurations and the two clients,
\* which no method assigns after __init__. Two threads calling migrate on
\* one ImageMigrator, one with key "k1" and one with key "k2", are two
\* frames: the variables of the model hold the frame of the thread that is
\* running and parked holds the frame of the other.
PairSourceObjects ==
    { Object(IndexFirstArchive(PackS(S3Tag, 12), 1, 1, MaxIndexLen, MaxGap, 0,
                               TrailerBytes)),
      Object(InfoFirstArchive(PackS(S3Tag, 12), MaxNameLen, 1, 1, 0, 0, << >>)),
      Object(IndexFirstArchive(PackS(S3Tag, 12), 1, 1, 1, 0, -1, << >>)),
      Object(IndexFirstArchive(PackS(<< 103, 99, 115 >>, 12), 1, 1, 1, 0, 0, << >>)),
      Object(Truncated(20)),
      Object(Truncated(CLIP_ARCHIVE_HEADER_SIZE)),
      Absent }

PairInit ==
    /\ source_bucket \in Configurations
    /\ target_bucket \in Configurations
    /\ store \in InitialStores(PairSourceObjects)
    /\ Fresh
    /\ codec = NoCodec

\* the frame of the running thread
Frame ==
    [ pc |-> pc, image_key |-> image_key, header |-> header, s3_info |-> s3_info,
      new_wrapper_data |-> new_wrapper_data, full_data |-> full_data,
      updated_data |-> updated_data, error |-> error, trace |-> trace,
      calls |-> calls, start |-> start ]

\* as Switch, if the header were an attribute of the instance
Switch_SharedHeader ==
    /\ parked' = [Frame EXCEPT !.header = parked.header]
    /\ pc' = parked.pc
    /\ image_key' = parked.image_key
    /\ s3_info' = parked.s3_info
    /\ new_wrapper_data' = parked.new_wrapper_data
    /\ full_data' = parked.full_data
    /\ updated_data' = parked.updated_data
    /\ error' = parked.error
    /\ trace' = parked.trace
    /\ calls' = parked.calls
    /\ start' = parked.start
    /\ UNCHANGED << store, config, header, runs, uploaded, codec >>

\* the scheduler suspends the running thread between two steps and resumes
\* the other one: each thread finds its locals as it left them
Switch ==
    /\ parked' = Frame
    /\ pc' = parked.pc
    /\ image_key' = parked.image_key
    /\ header' = parked.header
    /\ s3_info' = parked.s3_info
    /\ new_wrapper_data' = parked.new_wrapper_data
    /\ full_data' = parked.full_data
    /\ updated_data' = parked.updated_data
    /\ error' = parked.error
    /\ trace' = parked.trace
    /\ calls' = parked.calls
    /\ start' = parked.start
    /\ UNCHANGED << store, config, runs, uploaded, codec >>

\* a step of the running thread, which calls migrate with its own key only
Step ==
    /\ Next
    /\ image_key' # parked.image_key

NextPair == Switch \/ Step

SpecPair == PairInit /\ [][NextPair]_vars

\* what migrate(key) uploads when it runs alone on the object obj
AloneUpload(obj) ==
    LET h    == StructUnpack(BodyRead(obj.data, CLIP_ARCHIVE_HEADER_SIZE))
        info == DecodeS3StorageInfo(
                    DescriptorBytes(obj, h.storage_info_pos, h.storage_info_length))
        w    == NewWrapperData(NewS3StorageInfo(source_bucket, target_bucket,
                                                info.value))
    IN  UpdateBinaryData(obj.data, [h EXCEPT !.storage_info_length = Len(w)], w)

\* the object a frame's call found under its own key
OwnObject(f) == f.start[SourceLoc][f.image_key]

\* the buffers of a frame come from the object under the frame's own key
OwnBuffers(f) ==
    /\ f.pc \in {"HeaderFetched", "TypeChecked", "DescriptorFetched"} =>
         f.header = StructUnpack(BodyRead(OwnObject(f).data, CLIP_ARCHIVE_HEADER_SIZE))
    /\ f.pc \in {"DescriptorFetched", "DescriptorRebuilt", "Downloaded", "Spliced", "Done"} =>
         f.s3_info = DecodeS3StorageInfo(
                         DescriptorBytes(OwnObject(f),
                             StructUnpack(BodyRead(OwnObject(f).data,
                                 CLIP_ARCHIVE_HEADER_SIZE)).storage_info_pos,
                             StructUnpack(BodyRead(OwnObject(f).data,
                                 CLIP_ARCHIVE_HEADER_SIZE)).storage_info_length)).value
    /\ f.pc \in {"Downloaded", "Spliced", "Done"} => f.full_data = OwnObject(f).data
    /\ f.pc \in {"Spliced", "Done"} => f.updated_data = AloneUpload(OwnObject(f))
    /\ f.pc = "Done" => store[TargetLoc][f.image_key] = Object(AloneUpload(OwnObject(f)))

\* C18: in every interleaving of the steps of two calls of migrate on
\* different keys, on one shared instance, what is uploaded under each key is
\* what the call on that key uploads when it runs alone, and the header,
\* descriptor and archive buffers of each call come from the object under
\* its own key only.
C18_PipelinesIndependent ==
    /\ OwnBuffers(Frame)
    /\ OwnBuffers(parked)
    /\ image_key # parked.image_key
    /\ \A f \in {Frame, parked} :
         f.pc = "Done" =>
            /\ uploaded[f.image_key] # << >>
            /\ uploaded[f.image_key][Len(uploaded[f.image_key])]
                 = AloneUpload(OwnObject(f))

C18_Witness ==
    /\ pc = "Done"
    /\ image_key = "k2"
    /\ parked.pc = "Spliced"
    /\ uploaded["k2"] # << >>
    /\ OwnObject(parked) # OwnObject(Frame)
    /\ parked.header # header

====
